---- MODULE Spec2Model ----
(***************************************************************************)
(* Model of src/src/http-server.ts: the Express handlers of the GitHub MCP *)
(* server, its process-wide `analytics` object and its `transports` map.   *)
(*                                                                         *)
(* Node runs one handler at a time: a handler keeps the event loop until   *)
(* it returns or reaches an `await`.  `running` is the request whose       *)
(* synchronous section is executing (0 when the loop is idle); the two     *)
(* awaits of the /mcp handler (lines 524 and 528) are the only places      *)
(* where another handler can run in between.  What connect and             *)
(* handleRequest do belongs to the MCP SDK: each may resolve or reject,    *)
(* after any number of steps of other handlers.                            *)
(***************************************************************************)
EXTENDS Integers, Sequences, FiniteSets, TLC

\* ---------------------------------------------------------------- bounds
MaxRequests == 2        \* requests the clients send in one behaviour
MaxClock == 2           \* last tick of the wall clock (two ticks make an hour)
PreCalls == 99          \* tool calls the server has already recorded in InitBusy
PreHours == 25          \* hours in which the server of InitDay has had requests

\* ------------------------------------------------------ program constants
MaxRecent == 100        \* http-server.ts:97
TopClients == 20        \* http-server.ts:192
LastHours == 24         \* http-server.ts:197
ShownRecent == 20       \* http-server.ts:220

\* ----------------------------------------------------------- input values
Absent == "<undefined>"             \* JS undefined: parameter or header not sent

\* handler activations of /mcp that can be in flight at the same time; one
\* that has answered is released when the next request takes its place
RequestIds == {1, 2}

\* x-forwarded-for is modelled as the list of its comma-separated, trimmed
\* parts, user-agent as the list of its characters.  <<>> stands for a header
\* that was not sent (for user-agent: not sent or empty, both falsy);
\* split(',') of a header that was sent has at least one part.
ViaProxy  == [xff |-> <<"ip1", "ip9">>, remote |-> "ip2",  ua |-> <<"c", "/", "8">>]
Direct    == [xff |-> <<>>,             remote |-> "ip2",  ua |-> <<"m">>]
Anonymous == [xff |-> <<"">>,           remote |-> Absent, ua |-> <<>>]
\* a user-agent of LongLen characters without a slash, and one that starts
\* with a slash
LongLen == 51
LongAgent  == [xff |-> <<>>, remote |-> "ip2", ua |-> [i \in 1..LongLen |-> "x"]]
SlashAgent == [xff |-> <<"">>, remote |-> Absent, ua |-> <<"/", "b">>]

QueryTokens == {Absent, "", "tA"}
HeaderTokens == {Absent, "", "tB"}
DefaultTokens == {"", "tD"}

\* req.body after express.json(): the JSON-RPC envelope, or nothing
CallHello  == [method |-> "tools/call", name |-> "hello"]
CallIssue  == [method |-> "tools/call", name |-> "get_issue"]
CallNoName == [method |-> "tools/call", name |-> ""]
ListTools  == [method |-> "tools/list", name |-> Absent]
NoBody     == [method |-> Absent,       name |-> Absent]
Bodies == {CallHello, CallIssue, CallNoName, ListTools, NoBody}

Request(m, c, q, h, b) ==
  [method |-> m, client |-> c, query |-> q, header |-> h, body |-> b]

\* the requests the clients send to /mcp: each method, client, body and
\* resolved token (tA, tB, the default) occurs, a tool call with and without
\* a credential, a long user-agent and one starting with a slash among them
McpRequests ==
  { Request("POST",   ViaProxy,  "tA",   Absent, CallHello),
    Request("POST",   Direct,    Absent, "tB",   CallIssue),
    Request("POST",   Anonymous, Absent, Absent, CallHello),
    Request("POST",   ViaProxy,  "tA",   "tB",   ListTools),
    Request("POST",   LongAgent, "",     "tB",   CallNoName),
    Request("DELETE", SlashAgent, "",    "",     NoBody) }

\* every way of supplying the credential, for the resolver
WideRequests ==
  { Request("POST", ViaProxy, q, h, CallHello) :
      q \in QueryTokens, h \in HeaderTokens }

NoReq == Request(Absent, Direct, Absent, Absent, NoBody)

\* a tool call whose tool name spells `__proto__`
CallProto == [method |-> "tools/call", name |-> "__proto__"]
EdgeRequests == { Request("POST", ViaProxy, "tA", Absent, CallProto) }

VARIABLES
  GITHUB_TOKEN,   \* line 28: the configured default token ('' when not set)
  analytics,      \* lines 44-55
  transports,     \* line 487: token -> transport
  servers,        \* every transport/McpServer pair constructed so far;
                  \* servers[i] is the pair whose transport is i
  req,            \* the inputs of each /mcp request
  pc,             \* position of each request's handler
  token,          \* the handler's local `token`
  transport,      \* the handler's local `transport` (0: undefined)
  res,            \* the handler's response object
  running,        \* request whose synchronous section is executing, or 0
  now,            \* wall clock
  pending,        \* requests the clients have yet to send
  reply           \* the response the last GET handler sent

vars == <<GITHUB_TOKEN, analytics, transports, servers, req, pc, token,
          transport, res, running, now, pending, reply>>

\* ------------------------------------------------------------- telemetry
Unknown == <<"u", "n", "k", "n", "o", "w", "n">>

\* a test that takes '' for a value
TruthyDefined(s) == s # Absent

\* a string that is neither undefined nor ''
Truthy(s) == s # Absent /\ s # ""

\* a map rebuilt with the incremented key alone
IncAlone(m, k) == k :> ((IF k \in DOMAIN m THEN m[k] ELSE 0) + 1)

\* (m[k] || 0) + 1, for a key that is no name inherited from Object.prototype
Inc(m, k) ==
  IF k \in DOMAIN m THEN [m EXCEPT ![k] = @ + 1] ELSE m @@ (k :> 1)

\* Names whose assignment obj[k] = v is swallowed: `__proto__` is an accessor
\* inherited from Object.prototype, reading it yields an object (truthy), and
\* its setter ignores a value that is neither an object nor null, so no key
\* is created.  (Other inherited names, such as `constructor`, would store a
\* string; no input of the model uses them.)
Swallowed == {"__proto__"}

\* analytics.x[k] = (analytics.x[k] || 0) + 1 for a string k the client chose
IncName(m, k) == IF k \in Swallowed THEN m ELSE Inc(m, k)

getClientIp(c) ==
  IF c.xff # <<>> /\ Truthy(c.xff[1]) THEN c.xff[1]
  ELSE IF Truthy(c.remote) THEN c.remote
  ELSE "unknown"

RECURSIVE IndexOfSlash(_, _)
IndexOfSlash(s, i) ==
  IF i > Len(s) THEN 0
  ELSE IF s[i] = "/" THEN i
  ELSE IndexOfSlash(s, i + 1)

\* userAgent.split('/')[0] || userAgent.slice(0, 50)
ShortUserAgent(ua) ==
  LET userAgent == IF ua # <<>> THEN ua ELSE Unknown
      i == IndexOfSlash(userAgent, 1)
      first == IF i = 0 THEN userAgent ELSE SubSeq(userAgent, 1, i - 1)
  IN  IF first # <<>> THEN first
      ELSE SubSeq(userAgent, 1, IF Len(userAgent) < 50 THEN Len(userAgent) ELSE 50)

\* new Date().toISOString().slice(0, 13) + ':00'
HourKey(t) == t \div 2

trackRequest(a, method, client, endpoint, t) ==
  [a EXCEPT
     !.totalRequests = @ + 1,
     !.requestsByMethod = Inc(@, method),
     !.requestsByEndpoint = Inc(@, endpoint),
     !.clientsByIp = IncName(@, getClientIp(client)),
     !.clientsByUserAgent = Inc(@, ShortUserAgent(client.ua)),
     !.hourlyRequests = Inc(@, HourKey(t))]

\* a list that is never truncated
PushRecentNoPop(list, entry) == <<entry>> \o list

\* a list that takes new entries at its end and drops the first when full
PushRecentAtEnd(list, entry) ==
  LET l == Append(list, entry)
  IN  IF Len(l) > MaxRecent THEN Tail(l) ELSE l

\* unshift, then pop when longer than 100
PushRecent(list, entry) ==
  LET l == <<entry>> \o list
  IN  IF Len(l) > MaxRecent THEN SubSeq(l, 1, Len(l) - 1) ELSE l

\* a tool call that only counts in the total
trackToolCallTotalOnly(a, toolName, clientIp, t) ==
  [a EXCEPT !.totalToolCalls = @ + 1]

\* a tool call that is not recorded when the handler goes on to the session
trackToolCallSkipped(a, toolName, clientIp, t) == a

trackToolCall(a, toolName, clientIp, t) ==
  [a EXCEPT
     !.totalToolCalls = @ + 1,
     !.toolCalls = IncName(@, toolName),
     !.recentToolCalls =
        PushRecent(@, [tool |-> toolName, timestamp |-> t, clientIp |-> clientIp])]

\* req.body?.method === 'tools/call' && req.body?.params?.name
IsToolCall(body) == body.method = "tools/call" /\ Truthy(body.name)

\* ------------------------------------------------------------- snapshots
\* Keys that are canonical array indices ("0", "1", ...), with their number:
\* an object enumerates them first, in ascending order, whenever they were
\* added.  Hour keys (ISO dates) are never of this kind.
ArrayIndex == ("7" :> 7)
IsIndex(k) == k \in DOMAIN ArrayIndex

Min2(a, b) == IF a < b THEN a ELSE b

\* Object.entries(m).sort(([, a], [, b]) => b - a), as <<key, count>> pairs.
\* The sort is stable: entries with equal counts stay in the order of
\* Object.entries, index keys first; the maps of the model do not keep the
\* order in which the other keys were added, and one of them is taken.
RECURSIVE SortByCount(_, _)
SortByCount(m, K) ==
  IF K = {} THEN <<>>
  ELSE LET top == {x \in K : \A y \in K : m[x] >= m[y]}
           idx == {x \in top : IsIndex(x)}
           k == IF idx # {}
                THEN CHOOSE x \in idx : \A y \in idx : ArrayIndex[x] <= ArrayIndex[y]
                ELSE CHOOSE x \in top : TRUE
       IN  <<<<k, m[k]>>>> \o SortByCount(m, K \ {k})

\* Object.entries(m).sort(([a], [b]) => b.localeCompare(a)) for hour keys
RECURSIVE SortByKeyDesc(_, _)
SortByKeyDesc(m, K) ==
  IF K = {} THEN <<>>
  ELSE LET k == CHOOSE x \in K : \A y \in K : x >= y
       IN  <<<<k, m[k]>>>> \o SortByKeyDesc(m, K \ {k})

Slice(s, n) == SubSeq(s, 1, Min2(n, Len(s)))
Reverse(s) == [i \in 1..Len(s) |-> s[Len(s) + 1 - i]]

RECURSIVE IndexEntries(_, _)
IndexEntries(e, K) ==
  IF K = {} THEN <<>>
  ELSE LET k == CHOOSE x \in K : \A y \in K : ArrayIndex[x] <= ArrayIndex[y]
           i == CHOOSE j \in 1..Len(e) : e[j][1] = k
       IN  <<e[i]>> \o IndexEntries(e, K \ {k})

IsOrdinaryEntry(p) == ~IsIndex(p[1])

\* entries.reduce((acc, [k, v]) => ({ ...acc, [k]: v }), {}): the object as
\* it is enumerated and serialised, a sequence of <<key, value>> pairs
ObjectOf(e) ==
  IndexEntries(e, {e[i][1] : i \in {j \in 1..Len(e) : IsIndex(e[j][1])}})
    \o SelectSeq(e, IsOrdinaryEntry)

\* lines 186-199
sortedTools(a) == ObjectOf(SortByCount(a.toolCalls, DOMAIN a.toolCalls))
sortedClients(a) ==
  ObjectOf(Slice(SortByCount(a.clientsByIp, DOMAIN a.clientsByIp), TopClients))
last24Hours(a) ==
  Reverse(Slice(SortByKeyDesc(a.hourlyRequests, DOMAIN a.hourlyRequests), LastHours))

\* a status body whose hasToken tells whether a Session is cached
HealthBodyLive(t) ==
  [status |-> "healthy", server |-> "GitHub MCP Server", version |-> "1.0.0",
   transport |-> "streamable-http", hasToken |-> (DOMAIN transports # {}),
   timestamp |-> t]

\* the body of /health, lines 172-179
HealthBody(t) ==
  [status |-> "healthy", server |-> "GitHub MCP Server", version |-> "1.0.0",
   transport |-> "streamable-http", hasToken |-> Truthy(GITHUB_TOKEN),
   timestamp |-> t]

\* the body of /analytics, lines 201-221 (uptime and start time left out)
AnalyticsBody(a) ==
  [totalRequests |-> a.totalRequests,
   totalToolCalls |-> a.totalToolCalls,
   uniqueClients |-> Cardinality(DOMAIN a.clientsByIp),
   byMethod |-> a.requestsByMethod,
   byEndpoint |-> a.requestsByEndpoint,
   byTool |-> sortedTools(a),
   byIp |-> sortedClients(a),
   byUserAgent |-> a.clientsByUserAgent,
   hourlyRequests |-> last24Hours(a),
   recentToolCalls |-> Slice(a.recentToolCalls, ShownRecent)]

\* ((count / total) * 100).toFixed(1), in tenths of a percent
Percentage(count, total) ==
  IF total > 0 THEN (count * 2000 + total) \div (2 * total) ELSE 0

\* the body of /analytics/tools, lines 228-242
ToolsBody(a) ==
  LET e == SortByCount(a.toolCalls, DOMAIN a.toolCalls) IN
  [totalToolCalls |-> a.totalToolCalls,
   tools |-> [i \in 1..Len(e) |->
                [tool |-> e[i][1], count |-> e[i][2],
                 percentage |-> Percentage(e[i][2], a.totalToolCalls)]],
   recentCalls |-> a.recentToolCalls]

\* what a GET handler answers after trackRequest, given the analytics it reads
Body(endpoint, a, t) ==
  CASE endpoint = "/health" -> HealthBody(t)
    [] endpoint = "/analytics" -> AnalyticsBody(a)
    [] endpoint = "/analytics/tools" -> ToolsBody(a)
    [] endpoint = "/analytics/dashboard" -> [html |-> "dashboard"]
    [] endpoint = "/" -> [name |-> "GitHub MCP Server", version |-> "1.0.0",
                          transport |-> "streamable-http"]

NoReply == [endpoint |-> Absent, body |-> [html |-> Absent]]

\* ------------------------------------------------------- session building
\* a server whose client is built with the configured default token
createMcpServerDefault(t) ==
  [token |-> GITHUB_TOKEN, hasToken |-> Truthy(GITHUB_TOKEN), state |-> "connecting"]

\* createMcpServer(token): a server whose Octokit client is built with `token`
createMcpServer(t) == [token |-> t, hasToken |-> Truthy(t), state |-> "connecting"]

\* a resolver that prefers the header to the query parameter
ResolveTokenHeaderFirst(q, h, d) ==
  IF Truthy(h) THEN h ELSE IF Truthy(q) THEN q ELSE d

\* req.query.token || req.headers['x-github-token'] || GITHUB_TOKEN
ResolveToken(q, h, d) ==
  IF Truthy(q) THEN q ELSE IF Truthy(h) THEN h ELSE d

\* a rejection with the internal-error code
Envelope401WrongCode == [status |-> 401, code |-> -32603, id |-> "null"]
Envelope401 == [status |-> 401, code |-> -32001, id |-> "null"]
Envelope500 == [status |-> 500, code |-> -32603, id |-> "null"]
\* what the transport writes for a request it handled
TransportEnvelope == [status |-> 200, code |-> 0, id |-> "1"]

\* res.status(s).json(e); the transport answers through the same object
Json(r, e) == [headersSent |-> TRUE, writes |-> Append(r.writes, e)]

\* a catch block that answers without looking at headersSent
CatchAlways(r) == Json(r, [status |-> 500, code |-> -32603, id |-> "null"])

\* a catch block that only logs
CatchSilent(r) == r

\* the catch block, lines 529-541
Catch(r) == IF ~r.headersSent THEN Json(r, Envelope500) ELSE r

\* ------------------------------------------------------------------ Init
EmptyAnalytics ==
  [totalRequests |-> 0, totalToolCalls |-> 0,
   requestsByMethod |-> <<>>, requestsByEndpoint |-> <<>>,
   toolCalls |-> <<>>, recentToolCalls |-> <<>>,
   clientsByIp |-> <<>>, clientsByUserAgent |-> <<>>,
   hourlyRequests |-> <<>>]

NewRes == [headersSent |-> FALSE, writes |-> <<>>]

InitRequests ==
  /\ req = [r \in RequestIds |-> NoReq]
  /\ pc = [r \in RequestIds |-> "new"]
  /\ token = [r \in RequestIds |-> Absent]
  /\ transport = [r \in RequestIds |-> 0]
  /\ res = [r \in RequestIds |-> NewRes]
  /\ running = 0
  /\ now = 1
  /\ pending = MaxRequests
  /\ reply = NoReply

Init ==
  /\ GITHUB_TOKEN \in DefaultTokens
  /\ analytics = EmptyAnalytics
  /\ transports = <<>>
  /\ servers = <<>>
  /\ InitRequests

\* --------------------------------------------------------------- actions
Terminal == {"REJECTED", "RESPONDING", "ERROR"}

\* the activation the next /mcp request gets
IsFree(r) == pc[r] \in Terminal \cup {"new"}
IsNext(r) == IsFree(r) /\ \A q \in RequestIds : q < r => ~IsFree(q)

\* line 491: Express enters the /mcp handler
McpReceive(r) ==
  /\ running = 0 /\ pending > 0 /\ IsNext(r)
  /\ \E x \in McpRequests :
       /\ req' = [req EXCEPT ![r] = x]
       /\ analytics' = trackRequest(analytics, x.method, x.client, "/mcp", now)
  /\ pc' = [pc EXCEPT ![r] = "RESOLVING_CREDENTIAL"]
  /\ token' = [token EXCEPT ![r] = Absent]
  /\ transport' = [transport EXCEPT ![r] = 0]
  /\ res' = [res EXCEPT ![r] = NewRes]
  /\ running' = r
  /\ pending' = pending - 1
  /\ UNCHANGED <<reply, GITHUB_TOKEN, transports, servers, now>>

\* lines 494-513: resolve the token; 401 without one, else track a tool call
ResolveCredential(r) ==
  /\ running = r /\ pc[r] = "RESOLVING_CREDENTIAL"
  /\ LET t == ResolveToken(req[r].query, req[r].header, GITHUB_TOKEN) IN
     /\ token' = [token EXCEPT ![r] = t]
     /\ IF ~Truthy(t)
        THEN /\ res' = [res EXCEPT ![r] = Json(@, Envelope401)]
             /\ pc' = [pc EXCEPT ![r] = "REJECTED"]
             /\ running' = 0
             /\ UNCHANGED analytics
        ELSE /\ analytics' =
                  IF IsToolCall(req[r].body)
                  THEN trackToolCall(analytics, req[r].body.name,
                                     getClientIp(req[r].client), now)
                  ELSE analytics
             /\ pc' = [pc EXCEPT ![r] = "FETCHING_SESSION"]
             /\ UNCHANGED <<res, running>>
  /\ UNCHANGED <<reply, GITHUB_TOKEN, transports, servers, req, transport, now, pending>>

\* a handler that builds a transport and a server for every request
GetOrCreateFresh(r) ==
  /\ running = r /\ pc[r] = "FETCHING_SESSION"
  /\ servers' = Append(servers, createMcpServer(token[r]))
  /\ transport' = [transport EXCEPT ![r] = Len(servers) + 1]
  /\ pc' = [pc EXCEPT ![r] = "CONNECTING"]
  /\ running' = 0
  /\ UNCHANGED <<reply, GITHUB_TOKEN, analytics, transports, req, token, res, now, pending>>

\* a lookup that, on a miss, forwards to the new transport at once, without
\* connecting or caching it
GetOrCreateUnconnected(r) ==
  /\ running = r /\ pc[r] = "FETCHING_SESSION"
  /\ IF token[r] \in DOMAIN transports
     THEN /\ transport' = [transport EXCEPT ![r] = transports[token[r]]]
          /\ UNCHANGED servers
     ELSE /\ servers' = Append(servers, createMcpServer(token[r]))
          /\ transport' = [transport EXCEPT ![r] = Len(servers) + 1]
  /\ pc' = [pc EXCEPT ![r] = "FORWARDING"]
  /\ running' = 0
  /\ UNCHANGED <<reply, GITHUB_TOKEN, analytics, transports, req, token, res, now, pending>>

\* lines 517-524: transports.get(token); on a miss build a transport and a
\* server and start connecting them; on a hit go on to line 528
GetOrCreate(r) ==
  /\ running = r /\ pc[r] = "FETCHING_SESSION"
  /\ IF token[r] \in DOMAIN transports
     THEN /\ transport' = [transport EXCEPT ![r] = transports[token[r]]]
          /\ pc' = [pc EXCEPT ![r] = "FORWARDING"]
          /\ UNCHANGED servers
     ELSE /\ servers' = Append(servers, createMcpServer(token[r]))
          /\ transport' = [transport EXCEPT ![r] = Len(servers) + 1]
          /\ pc' = [pc EXCEPT ![r] = "CONNECTING"]
  /\ running' = 0
  /\ UNCHANGED <<reply, GITHUB_TOKEN, analytics, transports, req, token, res, now, pending>>

\* a cache that holds the last Session only
MapSetSingle(m, k, v) == k :> v

\* transports.set(token, transport)
MapSet(m, k, v) ==
  IF k \in DOMAIN m THEN [m EXCEPT ![k] = v] ELSE m @@ (k :> v)

\* lines 524-528: connect resolved; store the transport and forward
ConnectReturn(r) ==
  /\ running = 0 /\ pc[r] = "CONNECTING"
  /\ servers' = [servers EXCEPT ![transport[r]].state = "connected"]
  /\ transports' = MapSet(transports, token[r], transport[r])
  /\ pc' = [pc EXCEPT ![r] = "FORWARDING"]
  /\ UNCHANGED <<reply, GITHUB_TOKEN, analytics, req, token, transport, res, running,
                 now, pending>>

\* line 524 throws: the catch block answers
ConnectThrow(r) ==
  /\ running = 0 /\ pc[r] = "CONNECTING"
  /\ servers' = [servers EXCEPT ![transport[r]].state = "failed"]
  /\ res' = [res EXCEPT ![r] = Catch(@)]
  /\ pc' = [pc EXCEPT ![r] = "ERROR"]
  /\ UNCHANGED <<reply, GITHUB_TOKEN, analytics, transports, req, token,
                 transport, running, now, pending>>

\* line 528: the transport starts its response
TransportStart(r) ==
  /\ running = 0 /\ pc[r] = "FORWARDING" /\ ~res[r].headersSent
  /\ res' = [res EXCEPT ![r] = Json(@, TransportEnvelope)]
  /\ UNCHANGED <<reply, GITHUB_TOKEN, analytics, transports, servers, req, pc, token,
                 transport, running, now, pending>>

\* line 528: handleRequest resolved, the transport has answered
HandleReturn(r) ==
  /\ running = 0 /\ pc[r] = "FORWARDING" /\ res[r].headersSent
  /\ pc' = [pc EXCEPT ![r] = "RESPONDING"]
  /\ UNCHANGED <<reply, GITHUB_TOKEN, analytics, transports, servers, req, token,
                 transport, res, running, now, pending>>

\* line 528 throws: the catch block answers unless headers were sent
HandleThrow(r) ==
  /\ running = 0 /\ pc[r] = "FORWARDING"
  /\ res' = [res EXCEPT ![r] = Catch(@)]
  /\ pc' = [pc EXCEPT ![r] = "ERROR"]
  /\ UNCHANGED <<reply, GITHUB_TOKEN, analytics, transports, servers, req, token,
                 transport, running, now, pending>>

\* a query handler that empties the recent list once it has answered
GetDraining(endpoint) ==
  /\ running = 0 /\ pending > 0
  /\ analytics' = [trackRequest(analytics, "GET", Direct, endpoint, now)
                     EXCEPT !.recentToolCalls = <<>>]
  /\ reply' = [endpoint |-> endpoint,
               body |-> Body(endpoint, trackRequest(analytics, "GET", Direct, endpoint, now), now)]
  /\ pending' = pending - 1
  /\ UNCHANGED <<GITHUB_TOKEN, transports, servers, req, pc, token, transport, res,
                 running, now>>

\* the GET handlers: each tracks the request, then builds its answer from
\* the analytics and sends it, in one synchronous run
Get(endpoint) ==
  /\ running = 0 /\ pending > 0
  /\ analytics' = trackRequest(analytics, "GET", Direct, endpoint, now)
  /\ reply' = [endpoint |-> endpoint, body |-> Body(endpoint, analytics', now)]
  /\ pending' = pending - 1
  /\ UNCHANGED <<GITHUB_TOKEN, transports, servers, req, pc, token, transport, res,
                 running, now>>

Health == Get("/health")
Analytics == Get("/analytics")
AnalyticsTools == Get("/analytics/tools")
Dashboard == Get("/analytics/dashboard")
Root == Get("/")

Tick ==
  /\ now < MaxClock
  /\ now' = now + 1
  /\ UNCHANGED <<reply, GITHUB_TOKEN, analytics, transports, servers, req, pc, token,
                 transport, res, running, pending>>

Next ==
  \/ \E r \in RequestIds : McpReceive(r)
  \/ \E r \in RequestIds : ResolveCredential(r)
  \/ \E r \in RequestIds : GetOrCreate(r)
  \/ \E r \in RequestIds : ConnectReturn(r)
  \/ \E r \in RequestIds : ConnectThrow(r)
  \/ \E r \in RequestIds : TransportStart(r)
  \/ \E r \in RequestIds : HandleReturn(r)
  \/ \E r \in RequestIds : HandleThrow(r)
  \/ Health
  \/ Analytics
  \/ AnalyticsTools
  \/ Dashboard
  \/ Root
  \/ Tick

Spec == Init /\ [][Next]_vars

\* The server when the first /mcp request, with any way of supplying the
\* credential, has just entered the handler (line 491 done).
InitResolve ==
  /\ GITHUB_TOKEN \in DefaultTokens
  /\ transports = <<>>
  /\ servers = <<>>
  /\ now = 1
  /\ pending = MaxRequests - 1
  /\ \E x \in WideRequests :
       /\ req = [r \in RequestIds |-> IF r = 1 THEN x ELSE NoReq]
       /\ analytics = trackRequest(EmptyAnalytics, x.method, x.client, "/mcp", 1)
  /\ pc = [r \in RequestIds |-> IF r = 1 THEN "RESOLVING_CREDENTIAL" ELSE "new"]
  /\ token = [r \in RequestIds |-> Absent]
  /\ transport = [r \in RequestIds |-> 0]
  /\ res = [r \in RequestIds |-> NewRes]
  /\ running = 1
  /\ reply = NoReply

SpecResolve == InitResolve /\ [][Next]_vars

\* A server started without a default token, after PreCalls tool calls (the
\* first of them `get_issue`, the others `hello`) sent by one client with
\* token tA and answered.
BusyAnalytics ==
  [totalRequests |-> PreCalls, totalToolCalls |-> PreCalls,
   requestsByMethod |-> ("POST" :> PreCalls),
   requestsByEndpoint |-> ("/mcp" :> PreCalls),
   toolCalls |-> ("hello" :> (PreCalls - 1)) @@ ("get_issue" :> 1),
   recentToolCalls |->
     [i \in 1..PreCalls |->
        [tool |-> IF i = PreCalls THEN "get_issue" ELSE "hello",
         timestamp |-> IF i = PreCalls THEN 0 ELSE 1,
         clientIp |-> "ip1"]],
   clientsByIp |-> ("ip1" :> PreCalls),
   clientsByUserAgent |-> (<<"c">> :> PreCalls),
   hourlyRequests |-> (0 :> PreCalls)]

InitBusy ==
  /\ GITHUB_TOKEN = ""
  /\ analytics = BusyAnalytics
  /\ transports = ("tA" :> 1)
  /\ servers = <<[token |-> "tA", hasToken |-> TRUE, state |-> "connected"]>>
  /\ InitRequests

SpecBusy == InitBusy /\ [][Next]_vars

\* A server started without a default token that has had one POST to /mcp
\* with token tA in each of PreHours consecutive hours, the current one last;
\* three of them were tool calls, first one of a tool named `7`, then two of
\* `hello`.
DayAnalytics ==
  [totalRequests |-> PreHours, totalToolCalls |-> 3,
   requestsByMethod |-> ("POST" :> PreHours),
   requestsByEndpoint |-> ("/mcp" :> PreHours),
   toolCalls |-> ("7" :> 1) @@ ("hello" :> 2),
   recentToolCalls |->
     << [tool |-> "hello", timestamp |-> 1, clientIp |-> "ip1"],
        [tool |-> "hello", timestamp |-> 0, clientIp |-> "ip1"],
        [tool |-> "7", timestamp |-> -1, clientIp |-> "ip1"] >>,
   clientsByIp |-> ("ip1" :> PreHours),
   clientsByUserAgent |-> (<<"c">> :> PreHours),
   hourlyRequests |-> [h \in (1 - PreHours)..0 |-> 1]]

InitDay ==
  /\ GITHUB_TOKEN = ""
  /\ analytics = DayAnalytics
  /\ transports = ("tA" :> 1)
  /\ servers = <<[token |-> "tA", hasToken |-> TRUE, state |-> "connected"]>>
  /\ InitRequests

SpecDay == InitDay /\ [][Next]_vars

\* A server without a default token when a tool call with token tA has just
\* entered the /mcp handler.  Node runs a handler's synchronous section to its
\* end, and the SDK's connect and handleRequest are taken to settle (resolve
\* or reject) eventually.
InitLive ==
  /\ GITHUB_TOKEN = ""
  /\ transports = <<>>
  /\ servers = <<>>
  /\ now = 1
  /\ pending = MaxRequests - 1
  /\ LET x == Request("POST", ViaProxy, "tA", Absent, CallHello) IN
       /\ req = [r \in RequestIds |-> IF r = 1 THEN x ELSE NoReq]
       /\ analytics = trackRequest(EmptyAnalytics, x.method, x.client, "/mcp", 1)
  /\ pc = [r \in RequestIds |-> IF r = 1 THEN "RESOLVING_CREDENTIAL" ELSE "new"]
  /\ token = [r \in RequestIds |-> Absent]
  /\ transport = [r \in RequestIds |-> 0]
  /\ res = [r \in RequestIds |-> NewRes]
  /\ running = 1
  /\ reply = NoReply

\* The server when a first /mcp request naming the tool `__proto__`
\* has just entered the handler (line 491 done).
InitEdge ==
  /\ GITHUB_TOKEN = ""
  /\ transports = <<>>
  /\ servers = <<>>
  /\ now = 1
  /\ pending = MaxRequests - 1
  /\ \E x \in EdgeRequests :
       /\ req = [r \in RequestIds |-> IF r = 1 THEN x ELSE NoReq]
       /\ analytics = trackRequest(EmptyAnalytics, x.method, x.client, "/mcp", 1)
  /\ pc = [r \in RequestIds |-> IF r = 1 THEN "RESOLVING_CREDENTIAL" ELSE "new"]
  /\ token = [r \in RequestIds |-> Absent]
  /\ transport = [r \in RequestIds |-> 0]
  /\ res = [r \in RequestIds |-> NewRes]
  /\ running = 1
  /\ reply = NoReply

SpecEdge == InitEdge /\ [][Next]_vars

Fairness ==
  \A r \in RequestIds :
    /\ WF_vars(ResolveCredential(r))
    /\ WF_vars(GetOrCreate(r))
    /\ WF_vars(ConnectReturn(r) \/ ConnectThrow(r))
    /\ WF_vars(TransportStart(r) \/ HandleReturn(r) \/ HandleThrow(r))

SpecLive == InitLive /\ [][Next]_vars /\ Fairness

\* ================================================================ claims
Count(m, k) == IF k \in DOMAIN m THEN m[k] ELSE 0

\* the request's payload was handed to a transport (line 528 was reached)
Forwarded(r) ==
  \/ pc[r] \in {"FORWARDING", "RESPONDING"}
  \/ pc[r] = "ERROR" /\ servers[transport[r]].state = "connected"

\* C1: requests racing on the same unseen token get one Session: no two
\* transport/server pairs exist for one token (pairs whose connect failed
\* aside, which a later request may replace).
C1_OneSessionPerToken ==
  \A i, j \in DOMAIN servers :
    ( /\ servers[i].token = servers[j].token
      /\ servers[i].state # "failed"
      /\ servers[j].state # "failed" ) => i = j

\* C2: two requests with the same token that were forwarded were forwarded to
\* the same Session, and once no request is still building a Session for the
\* token, every forwarded request used the Session the cache holds for it.
C2_SameSessionForSameToken ==
  /\ \A r1, r2 \in RequestIds :
       (Forwarded(r1) /\ Forwarded(r2) /\ token[r1] = token[r2])
         => transport[r1] = transport[r2]
  /\ \A r \in RequestIds :
       ( /\ Forwarded(r)
         /\ \A q \in RequestIds : ~(pc[q] = "CONNECTING" /\ token[q] = token[r]) )
         => (token[r] \in DOMAIN transports /\ transports[token[r]] = transport[r])

\* C3: every Session cached under token t has a client built from t, and the
\* Session a request holds (looked up or created) has a client built from the
\* request's own token.
C3_SessionBoundToOwnToken ==
  /\ \A t \in DOMAIN transports : servers[transports[t]].token = t
  /\ \A r \in RequestIds :
       transport[r] # 0 => servers[transport[r]].token = token[r]

C3_Witness ==
  \E r1, r2 \in RequestIds :
    /\ Forwarded(r1) /\ Forwarded(r2)
    /\ token[r1] = "tA" /\ token[r2] = "tB"
    /\ transport[r1] # transport[r2]

\* C4: the resolved token is the first non-empty of query, header, default,
\* and the request is rejected exactly when none of the three is non-empty.
C4_Precedence ==
  \A r \in RequestIds :
    pc[r] \notin {"new", "RESOLVING_CREDENTIAL"} =>
      LET src == <<req[r].query, req[r].header, GITHUB_TOKEN>>
          present == {i \in 1..3 : src[i] \notin {Absent, ""}}
      IN  IF present = {}
          THEN pc[r] = "REJECTED"
          ELSE /\ pc[r] # "REJECTED"
               /\ token[r] = src[CHOOSE i \in present : \A j \in present : i <= j]

C4_Witness ==
  \E r \in RequestIds :
    /\ req[r].query = "" /\ req[r].header = "tB" /\ GITHUB_TOKEN = "tD"
    /\ pc[r] = "FORWARDING" /\ token[r] = "tB"

\* C5: a request with no credential ends REJECTED with status 401, code
\* -32001 and id null as its only response, holds no transport, and the step
\* that rejects it comes straight from credential resolution and changes
\* neither the session cache nor the set of Sessions.
C5_RejectionContained ==
  /\ [](\A r \in RequestIds :
          (pc[r] \notin {"new", "RESOLVING_CREDENTIAL"} /\ token[r] \in {Absent, ""})
            => /\ pc[r] = "REJECTED"
               /\ res[r].headersSent
               /\ res[r].writes = <<[status |-> 401, code |-> -32001, id |-> "null"]>>
               /\ transport[r] = 0)
  /\ [][\A r \in RequestIds :
          (pc'[r] = "REJECTED" /\ pc[r] # "REJECTED")
            => /\ pc[r] = "RESOLVING_CREDENTIAL"
               /\ transports' = transports
               /\ servers' = servers]_vars

C5_Witness ==
  \E r \in RequestIds :
    /\ pc[r] = "REJECTED" /\ IsToolCall(req[r].body)
    /\ DOMAIN transports # {}

\* C6: when a request enters ERROR, the 500 / -32603 envelope is written
\* if and only if no response had been started; otherwise the response is
\* left as it was.  No request ever has more than one response.
C6_SingleErrorResponse ==
  /\ [](\A r \in RequestIds : Len(res[r].writes) <= 1)
  /\ [][\A r \in RequestIds :
          (pc'[r] = "ERROR" /\ pc[r] # "ERROR")
            => IF res[r].headersSent
               THEN res'[r] = res[r]
               ELSE /\ res'[r].headersSent
                    /\ res'[r].writes =
                         <<[status |-> 500, code |-> -32603, id |-> "null"]>>]_vars

C6_Witness ==
  \E r1, r2 \in RequestIds :
    /\ pc[r1] = "ERROR" /\ pc[r2] = "ERROR"
    /\ res[r1].writes = <<[status |-> 500, code |-> -32603, id |-> "null"]>>
    /\ res[r2].writes = <<[status |-> 200, code |-> 0, id |-> "1"]>>

\* the step records a request to /mcp
RequestRecorded ==
  /\ analytics'.totalRequests = analytics.totalRequests + 1
  /\ Count(analytics'.requestsByEndpoint, "/mcp")
       = Count(analytics.requestsByEndpoint, "/mcp") + 1

\* the step records a call of the tool that request r names
ToolCallRecorded(r) ==
  LET n == req[r].body.name IN
  /\ analytics'.totalToolCalls = analytics.totalToolCalls + 1
  /\ Count(analytics'.toolCalls, n) = Count(analytics.toolCalls, n) + 1
  /\ analytics'.recentToolCalls # <<>>
  /\ Head(analytics'.recentToolCalls).tool = n

EntersHandler(r) ==
  pc[r] # "RESOLVING_CREDENTIAL" /\ pc'[r] = "RESOLVING_CREDENTIAL"
LeavesResolution(r) ==
  pc[r] = "RESOLVING_CREDENTIAL" /\ pc'[r] # "RESOLVING_CREDENTIAL"

C8_RecordedBeforeFetch ==
  /\ \A r \in RequestIds :
       (pc[r] = "FETCHING_SESSION" /\ IsToolCall(req[r].body))
         => /\ transport[r] = 0
            /\ analytics.recentToolCalls # <<>>
            /\ Head(analytics.recentToolCalls).tool = req[r].body.name
            /\ Count(analytics.toolCalls, req[r].body.name) >= 1
  /\ \A n \in {b.name : b \in Bodies} :
       Cardinality({r \in RequestIds :
                      /\ pc[r] \in {"FETCHING_SESSION", "CONNECTING", "FORWARDING",
                                    "RESPONDING", "ERROR"}
                      /\ IsToolCall(req[r].body)
                      /\ req[r].body.name = n})
         <= Count(analytics.toolCalls, n)

C8_Witness ==
  \E r1, r2 \in RequestIds :
    /\ pc[r1] = "ERROR" /\ IsToolCall(req[r1].body)
    /\ servers[transport[r1]].state = "failed"
    /\ pc[r2] = "RESPONDING" /\ IsToolCall(req[r2].body)
    /\ analytics.totalToolCalls = 2

\* C9: the recent list never holds more than 100 entries and is ordered
\* most-recent-first; whenever it changes, the new entry is at the front, the
\* entries before it follow in their order, and when the list was full the
\* last one is gone.
C9_RecentBoundedNewestFirst ==
  /\ [](LET l == analytics.recentToolCalls IN
          /\ Len(l) <= 100
          /\ \A i \in 1..(Len(l) - 1) : l[i].timestamp >= l[i + 1].timestamp)
  /\ [][LET l == analytics.recentToolCalls
            m == analytics'.recentToolCalls
        IN  m # l =>
              /\ Len(m) = IF Len(l) < 100 THEN Len(l) + 1 ELSE 100
              /\ m[1].timestamp = now
              /\ \A i \in 2..Len(m) : m[i] = l[i - 1]]_vars

C9_Witness ==
  /\ Len(analytics.recentToolCalls) = 100
  /\ analytics.totalToolCalls > 100
  /\ analytics.recentToolCalls[100].tool = "hello"
  /\ Count(analytics.toolCalls, "get_issue") = 1

MapGrows(m, n) ==
  /\ DOMAIN m \subseteq DOMAIN n
  /\ \A k \in DOMAIN m : n[k] >= m[k]

\* C10: no step lowers a counter of the analytics or removes a key of one of
\* its maps.
C10_CountersMonotone ==
  [][analytics' # analytics =>
       /\ analytics'.totalRequests >= analytics.totalRequests
       /\ analytics'.totalToolCalls >= analytics.totalToolCalls
       /\ MapGrows(analytics.requestsByMethod, analytics'.requestsByMethod)
       /\ MapGrows(analytics.requestsByEndpoint, analytics'.requestsByEndpoint)
       /\ MapGrows(analytics.toolCalls, analytics'.toolCalls)
       /\ MapGrows(analytics.hourlyRequests, analytics'.hourlyRequests)
       /\ MapGrows(analytics.clientsByIp, analytics'.clientsByIp)
       /\ MapGrows(analytics.clientsByUserAgent, analytics'.clientsByUserAgent)]_vars

C10_Witness ==
  /\ analytics.totalRequests = 2
  /\ analytics.totalToolCalls = 2
  /\ Count(analytics.requestsByEndpoint, "/mcp") = 2
  /\ Cardinality(DOMAIN analytics.hourlyRequests) = 2
  /\ Cardinality(DOMAIN analytics.clientsByIp) = 2

QueryEndpoints == {"/analytics", "/analytics/tools"}

\* the tool-call part of the analytics is the same after the step
ToolTelemetryKept ==
  /\ analytics'.totalToolCalls = analytics.totalToolCalls
  /\ analytics'.toolCalls = analytics.toolCalls
  /\ analytics'.recentToolCalls = analytics.recentToolCalls

\* the step records exactly one request, a GET of endpoint e
OneGetRecorded(e) ==
  /\ analytics'.totalRequests = analytics.totalRequests + 1
  /\ Count(analytics'.requestsByMethod, "GET")
       = Count(analytics.requestsByMethod, "GET") + 1
  /\ \A m \in DOMAIN analytics.requestsByMethod \ {"GET"} :
       analytics'.requestsByMethod[m] = analytics.requestsByMethod[m]
  /\ Count(analytics'.requestsByEndpoint, e)
       = Count(analytics.requestsByEndpoint, e) + 1
  /\ \A x \in DOMAIN analytics.requestsByEndpoint \ {e} :
       analytics'.requestsByEndpoint[x] = analytics.requestsByEndpoint[x]

C12_HealthOnlyCounts ==
  /\ [](reply.endpoint = "/health" =>
          [reply.body EXCEPT !.timestamp = 0] =
            [status |-> "healthy", server |-> "GitHub MCP Server",
             version |-> "1.0.0", transport |-> "streamable-http",
             hasToken |-> (GITHUB_TOKEN \notin {Absent, ""}), timestamp |-> 0])
  /\ [][/\ GITHUB_TOKEN' = GITHUB_TOKEN
        /\ Health =>
             /\ OneGetRecorded("/health")
             /\ ToolTelemetryKept
             /\ transports' = transports /\ servers' = servers
             /\ reply'.body.timestamp = now
             /\ reply.endpoint = "/health" =>
                  [reply'.body EXCEPT !.timestamp = 0]
                    = [reply.body EXCEPT !.timestamp = 0]]_vars

C12_Witness ==
  /\ reply.endpoint = "/health"
  /\ reply.body.timestamp = 2
  /\ Count(analytics.requestsByEndpoint, "/health") = 2
  /\ Count(analytics.hourlyRequests, 0) = PreCalls + 1
  /\ DOMAIN transports # {}
  /\ Len(analytics.recentToolCalls) = PreCalls

\* C13: no step removes a token from the session cache: every token cached
\* before a step is cached after it, whatever request (POST, GET, DELETE, any
\* token) the step belongs to.
C13_CacheOnlyGrows ==
  [][DOMAIN transports \subseteq DOMAIN transports']_vars

C13_Witness ==
  \E r1, r2 \in RequestIds :
    /\ req[r1].method = "POST" /\ req[r2].method = "DELETE"
    /\ pc[r1] = "RESPONDING" /\ pc[r2] = "RESPONDING"
    /\ token[r1] = "tD" /\ token[r2] = "tD"
    /\ transport[r1] = transport[r2]
    /\ DOMAIN transports = {"tD"}

\* every request that entered the /mcp handler reaches a terminal state
EveryRequestEnds ==
  \A r \in RequestIds :
    (pc[r] \notin Terminal \cup {"new"}) ~> (pc[r] \in Terminal)

\* the caller got one response, a JSON-RPC error envelope
HasErrorEnvelope(r) ==
  /\ res[r].headersSent
  /\ Len(res[r].writes) = 1
  /\ res[r].writes[1].code < 0
  /\ res[r].writes[1].id = "null"

\* C14 as stated: every /mcp request reaches a terminal state, and in every
\* terminal failure state (REJECTED or ERROR) the caller has received an RPC
\* error envelope.
C14_EveryFailureEnveloped ==
  /\ EveryRequestEnds
  /\ [](\A r \in RequestIds :
          pc[r] \in {"REJECTED", "ERROR"} => HasErrorEnvelope(r))

\* C14 amended: every /mcp request reaches a terminal state; a REJECTED
\* request has received the 401 / -32001 envelope; a request in ERROR has
\* received the 500 / -32603 envelope when no response had been started, and
\* otherwise exactly what the transport had sent before it threw, with
\* nothing added.  No terminal request is left without any response.
C14_FailureAnsweredOnce ==
  /\ EveryRequestEnds
  /\ [](\A r \in RequestIds :
          /\ pc[r] \in Terminal => (res[r].headersSent /\ Len(res[r].writes) = 1)
          /\ pc[r] = "REJECTED" =>
               (HasErrorEnvelope(r) /\ res[r].writes[1].status = 401
                  /\ res[r].writes[1].code = -32001)
          /\ pc[r] = "ERROR" =>
               \/ /\ HasErrorEnvelope(r) /\ res[r].writes[1].status = 500
                  /\ res[r].writes[1].code = -32603
               \/ /\ servers[transport[r]].state = "connected"
                  /\ res[r].writes = <<[status |-> 200, code |-> 0, id |-> "1"]>>)

C14_Witness ==
  \E r1, r2 \in RequestIds :
    /\ pc[r1] = "ERROR" /\ res[r1].writes[1].code = 0
    /\ pc[r2] = "REJECTED" /\ res[r2].writes[1].code = -32001

\* C15: every Session that was built, cached or not, was built from a
\* non-empty token and its hello tool reports hasToken = true; neither the
\* empty string nor an absent token is a key of the session cache.
C15_SessionsHaveToken ==
  /\ \A i \in DOMAIN servers :
       /\ servers[i].token \notin {Absent, ""}
       /\ servers[i].hasToken = TRUE
  /\ \A t \in DOMAIN transports :
       /\ t \notin {Absent, ""}
       /\ transports[t] \in DOMAIN servers
  /\ \A r \in RequestIds :
       transport[r] # 0 => transport[r] \in DOMAIN servers

C15_Witness ==
  \E r \in RequestIds :
    /\ req[r].query = "" /\ req[r].header = ""
    /\ token[r] = "tD"
    /\ pc[r] = "RESPONDING"
    /\ servers[transport[r]].hasToken
    /\ DOMAIN transports = {"tD"}

\* the dispatcher state a handler position belongs to: while connect is
\* awaited the Session is still being fetched
PhaseOf(p) == IF p = "CONNECTING" THEN "FETCHING_SESSION" ELSE p

ClaimedTransitions ==
  { <<"RESOLVING_CREDENTIAL", "REJECTED">>,
    <<"RESOLVING_CREDENTIAL", "FETCHING_SESSION">>,
    <<"FETCHING_SESSION", "FORWARDING">>,
    <<"FORWARDING", "RESPONDING">>,
    <<"FORWARDING", "ERROR">> }

\* request r goes on to another dispatcher state (the arrival of a new call
\* in RESOLVING_CREDENTIAL aside)
Moves(r) ==
  /\ PhaseOf(pc'[r]) # PhaseOf(pc[r])
  /\ pc'[r] # "RESOLVING_CREDENTIAL"

\* r enters FORWARDING with a resolved token and the connected Session that
\* was built from that token and is cached for it
ForwardsWithSession(r) ==
  pc'[r] = "FORWARDING" =>
    /\ token'[r] \notin {Absent, ""}
    /\ transport'[r] \in DOMAIN servers'
    /\ servers'[transport'[r]].token = token'[r]
    /\ servers'[transport'[r]].state = "connected"
    /\ token'[r] \in DOMAIN transports'
    /\ transports'[token'[r]] = transport'[r]

\* C16 as stated: a call moves only along RESOLVING_CREDENTIAL -> REJECTED,
\* RESOLVING_CREDENTIAL -> FETCHING_SESSION, FETCHING_SESSION -> FORWARDING,
\* FORWARDING -> RESPONDING and FORWARDING -> ERROR, and enters FORWARDING
\* only with a resolved token and a Session obtained for it.
C16_ClaimedTransitionsOnly ==
  [][\A r \in RequestIds :
       Moves(r) =>
         /\ <<PhaseOf(pc[r]), PhaseOf(pc'[r])>> \in ClaimedTransitions
         /\ ForwardsWithSession(r)]_vars

\* C16 amended: a call moves only along the five transitions above and
\* FETCHING_SESSION -> ERROR, taken when connecting a newly built Session
\* throws; ERROR is entered from FETCHING_SESSION or FORWARDING only, and
\* FORWARDING only with a resolved token and a Session obtained for it.
C16_TransitionsWithConnectError ==
  [][\A r \in RequestIds :
       Moves(r) =>
         /\ <<PhaseOf(pc[r]), PhaseOf(pc'[r])>>
              \in ClaimedTransitions \cup {<<"FETCHING_SESSION", "ERROR">>}
         /\ (pc[r] = "FETCHING_SESSION" => pc'[r] # "ERROR")
         /\ (pc[r] = "CONNECTING" /\ pc'[r] = "ERROR") =>
              /\ servers'[transport[r]].state = "failed"
              /\ transports' = transports
         /\ ForwardsWithSession(r)]_vars

C16_Witness ==
  \E r1, r2 \in RequestIds :
    /\ pc[r1] = "ERROR" /\ servers[transport[r1]].state = "failed"
    /\ pc[r2] = "ERROR" /\ servers[transport[r2]].state = "connected"
    /\ token[r1] = token[r2]

RECURSIVE SumOver(_, _)
SumOver(m, K) ==
  IF K = {} THEN 0
  ELSE LET k == CHOOSE x \in K : TRUE IN m[k] + SumOver(m, K \ {k})
Sum(m) == SumOver(m, DOMAIN m)

\* C17: in every state (each one is a state a query handler can read, since
\* a handler's synchronous section is one step) the total request count is the
\* sum of the per-method counts, of the per-endpoint counts, of the per-IP
\* counts, of the per-user-agent counts and of the per-hour counts, and the
\* total tool-call count is the sum of the per-tool counts.
C17_TotalsAreSums ==
  /\ analytics.totalRequests = Sum(analytics.requestsByMethod)
  /\ analytics.totalRequests = Sum(analytics.requestsByEndpoint)
  /\ analytics.totalRequests = Sum(analytics.clientsByIp)
  /\ analytics.totalRequests = Sum(analytics.clientsByUserAgent)
  /\ analytics.totalRequests = Sum(analytics.hourlyRequests)
  /\ analytics.totalToolCalls = Sum(analytics.toolCalls)

\* request r takes a step of its handler
StepOf(r) == pc'[r] # pc[r] \/ res'[r] # res[r]

\* C18: a request that finds a Session cached for its token takes that very
\* Session and goes on to forward; neither that step nor any later step of
\* the request builds a transport or server or changes a Session or the
\* cache mapping.
C18_HitReturnsCachedSession ==
  [][\A r \in RequestIds :
       /\ (pc[r] = "FETCHING_SESSION" /\ token[r] \in DOMAIN transports /\ StepOf(r))
            => /\ pc'[r] = "FORWARDING"
               /\ transport'[r] = transports[token[r]]
               /\ servers' = servers
               /\ transports' = transports
       /\ (pc[r] = "FORWARDING" /\ StepOf(r))
            => /\ pc'[r] \in {"FORWARDING", "RESPONDING", "ERROR"}
               /\ transport'[r] = transport[r]
               /\ servers' = servers
               /\ transports' = transports]_vars

C18_Witness ==
  \E r \in RequestIds :
    /\ token[r] = "tA" /\ pc[r] = "RESPONDING"
    /\ transport[r] = 1
    /\ servers = <<[token |-> "tA", hasToken |-> TRUE, state |-> "connected"]>>
    /\ transports = ("tA" :> 1)
    /\ analytics.totalRequests = PreCalls + 1

\* the key the claim gives a user-agent string: what precedes its first
\* slash, or its first 50 characters when it has no slash
ClaimedAgentKey(ua) ==
  LET i == IndexOfSlash(ua, 1)
  IN  IF i > 0 THEN SubSeq(ua, 1, i - 1)
      ELSE SubSeq(ua, 1, IF Len(ua) < 50 THEN Len(ua) ELSE 50)

\* C19: every request that sent a user-agent string has been counted under
\* the part of the string before its first slash or, when the string has no
\* slash, under its first 50 characters.
C19_AgentKeyAsClaimed ==
  \A r \in RequestIds :
    (pc[r] # "new" /\ req[r].client.ua # <<>>)
      => ClaimedAgentKey(req[r].client.ua) \in DOMAIN analytics.clientsByUserAgent

\* the pairs are in descending order of count
Descending(s) == \A i \in 1..(Len(s) - 1) : s[i][2] >= s[i + 1][2]

\* the pairs are the entries of map m for the key set K, each key once
ListsEntries(s, m, K) ==
  /\ Len(s) = Cardinality(K)
  /\ {s[i] : i \in 1..Len(s)} = {<<k, m[k]>> : k \in K}

\* the (up to) n largest keys of m
Latest(m, n) ==
  {k \in DOMAIN m : Cardinality({j \in DOMAIN m : j > k}) < n}

\* C20: in the body of every /analytics response the tool breakdown lists
\* every tool and the client breakdown lists clients, each in descending order
\* of count, and the hourly section lists exactly the (up to) 24 most recent
\* hour buckets of the state, in ascending order, each with its count.
C20_SnapshotOrdered ==
  [][Analytics =>
       LET b == reply'.body
           a == analytics'
       IN  /\ ListsEntries(b.byTool, a.toolCalls, DOMAIN a.toolCalls)
           /\ Descending(b.byTool)
           /\ {b.byIp[i] : i \in 1..Len(b.byIp)}
                \subseteq {<<k, a.clientsByIp[k]>> : k \in DOMAIN a.clientsByIp}
           /\ Descending(b.byIp)
           /\ ListsEntries(b.hourlyRequests, a.hourlyRequests,
                           Latest(a.hourlyRequests, 24))
           /\ \A i \in 1..(Len(b.hourlyRequests) - 1) :
                b.hourlyRequests[i][1] < b.hourlyRequests[i + 1][1]]_vars

\* request r's connect throws in this step
ConnectFails(r) == pc[r] = "CONNECTING" /\ pc'[r] = "ERROR"

\* every Session built so far for token t failed to connect
OnlyFailedFor(t) ==
  \A i \in DOMAIN servers : servers[i].token = t => servers[i].state = "failed"

\* C21: when connecting a newly built Session throws, the step leaves the
\* session cache as it was, the cache has no entry for the request's token,
\* and the request is answered 500 / -32603; the cache never holds a Session
\* that is not connected; and a request whose token has had failed
\* constructions only builds a new transport and server.
C21_FailedConstructionLeavesNoEntry ==
  /\ [](\A t \in DOMAIN transports : servers[transports[t]].state = "connected")
  /\ [][\A r \in RequestIds :
          /\ ConnectFails(r) =>
               /\ transports' = transports
               /\ token[r] \notin DOMAIN transports'
               /\ res'[r].writes = <<[status |-> 500, code |-> -32603, id |-> "null"]>>
          /\ (pc[r] = "FETCHING_SESSION" /\ StepOf(r) /\ OnlyFailedFor(token[r])) =>
               /\ pc'[r] = "CONNECTING"
               /\ Len(servers') = Len(servers) + 1
               /\ servers'[transport'[r]].state = "connecting"]_vars

\* request r, holding a resolved token and a tools/call body with a name,
\* leaves credential resolution in this step
RecordsToolCall(r) ==
  /\ LeavesResolution(r)
  /\ token'[r] \notin {Absent, ""}
  /\ req[r].body.method = "tools/call"
  /\ req[r].body.name \notin {Absent, ""}

\* the tool-call telemetry grows by exactly one call of tool n
OneCallAdded(n) ==
  LET l == analytics.recentToolCalls
      m == analytics'.recentToolCalls
  IN  /\ analytics'.totalToolCalls = analytics.totalToolCalls + 1
      /\ DOMAIN analytics'.toolCalls = DOMAIN analytics.toolCalls \cup {n}
      /\ analytics'.toolCalls[n] = Count(analytics.toolCalls, n) + 1
      /\ \A k \in DOMAIN analytics.toolCalls \ {n} :
           analytics'.toolCalls[k] = analytics.toolCalls[k]
      /\ Len(m) = IF Len(l) < 100 THEN Len(l) + 1 ELSE 100
      /\ m[1].tool = n
      /\ \A i \in 2..Len(m) : m[i] = l[i - 1]

\* C22: a step changes the tool-call telemetry (total, per-tool counts,
\* recent list) only when a /mcp request with a resolved token and a
\* tools/call body with a non-empty name passes credential resolution, and
\* then by exactly one call of that tool; every other step leaves it as it was.
C22_ToolTelemetryByOne ==
  [][/\ \A r \in RequestIds :
          RecordsToolCall(r) => OneCallAdded(req[r].body.name)
     /\ (\A r \in RequestIds : ~RecordsToolCall(r)) => ToolTelemetryKept]_vars

\* C23: in every state the recent list has min(total tool calls, 100)
\* entries; a step that records a tool call puts the tool that its request
\* names in the first entry, and a step that records none leaves the list as
\* it was, so the first entry always names the tool recorded last.
C23_RecentTracksTotal ==
  /\ [](Len(analytics.recentToolCalls)
          = IF analytics.totalToolCalls < 100 THEN analytics.totalToolCalls ELSE 100)
  /\ [][IF analytics'.totalToolCalls # analytics.totalToolCalls
        THEN \E r \in RequestIds :
               /\ LeavesResolution(r)
               /\ analytics'.totalToolCalls = analytics.totalToolCalls + 1
               /\ analytics'.recentToolCalls[1].tool = req[r].body.name
               /\ analytics'.recentToolCalls[1].timestamp = now
        ELSE analytics'.recentToolCalls = analytics.recentToolCalls]_vars

C23_Witness ==
  /\ analytics.totalToolCalls = PreCalls + 2
  /\ Len(analytics.recentToolCalls) = 100
  /\ analytics.recentToolCalls[1].tool = "get_issue"
  /\ analytics.recentToolCalls[2].tool = "hello"
  /\ analytics.recentToolCalls[2].timestamp = now

====
